---- MODULE Spec2Model ----
(***************************************************************************)
(* A model of buildcatrust/der_x509.py: the DER length / base-128 codecs,   *)
(* the TLV walker, ObjectID, CertExtension, TBSCertificate / Certificate,   *)
(* the PEM armor, OpenSSLCertAux, the trusted-certificate combinator and    *)
(* DistinguishedName.                                                      *)
(*                                                                         *)
(* bytes are sequences over 0..255, text is a sequence of code points.      *)
(* Every operation returns a record with a field ok; ok = FALSE carries the *)
(* name of the Python exception the operation raises (an uncaught           *)
(* exception aborts the call).  Python slicing b[i:j] clamps to the         *)
(* sequence and never raises; indexing b[i] outside it raises IndexError.   *)
(***************************************************************************)
EXTENDS Integers, Sequences, FiniteSets, TLC

VARIABLES pc, inp, res, fp, rets

vars == <<pc, inp, res, fp, rets>>

\* ---------------------------------------------------------------- bounds

\* longest arc sequence of a modelled ObjectID
MaxArcs == 3
\* longest raw byte string handed to _dumb_decode
MaxRaw == 4
\* most elements that follow subjectPublicKeyInfo in a modelled TBSCertificate
MaxTail == 2
\* largest excess of a declared outer Certificate length over the octets present
MaxDelta == 1
\* most ObjectIDs in a modelled ExtendedKeyUsages value
MaxEku == 14
\* most PEM blocks in one modelled stream
MaxBlocks == 2
\* most lines in a modelled raw text stream
MaxLines == 3
\* most attribute SEQUENCEs in the SET of a modelled DistinguishedName
MaxAttrs == 2

\* ------------------------------------------------------- Python primitives

Min(a, b) == IF a < b THEN a ELSE b

\* b[:n]
Take(b, n) == SubSeq(b, 1, Min(n, Len(b)))

\* b[n:]
Drop(b, n) == SubSeq(b, Min(n, Len(b)) + 1, Len(b))

\* a raised exception
Err(e) == [ok |-> FALSE, err |-> e]

RECURSIVE FromBytesBig(_)
\* int.from_bytes(b, "big")
FromBytesBig(b) ==
  IF b = <<>> THEN 0
  ELSE 256 * FromBytesBig(SubSeq(b, 1, Len(b) - 1)) + b[Len(b)]

RECURSIVE ToBytesBig(_, _)
\* n.to_bytes(k, "big"), for n < 256^k
ToBytesBig(n, k) ==
  IF k = 0 THEN <<>> ELSE Append(ToBytesBig(n \div 256, k - 1), n % 256)

RECURSIVE ByteLength(_)
\* (n.bit_length() + 7) // 8, for n >= 1
ByteLength(n) == IF n < 256 THEN 1 ELSE 1 + ByteLength(n \div 256)

RECURSIVE Concat(_)
\* b"".join(parts)
Concat(parts) ==
  IF parts = <<>> THEN <<>> ELSE Head(parts) \o Concat(Tail(parts))

RECURSIVE SeqLess(_, _)
\* a < b on two lists of integers (or two strings): lexicographic
SeqLess(a, b) ==
  IF b = <<>> THEN FALSE
  ELSE IF a = <<>> THEN TRUE
  ELSE IF Head(a) # Head(b) THEN Head(a) < Head(b)
  ELSE SeqLess(Tail(a), Tail(b))

\* ----------------------------------------------------- length / arc codecs

\* _decode_len(i) -> (length, length_bytes, rest)
_decode_len(i) ==
  IF i = <<>> THEN Err("IndexError")
  ELSE IF i[1] > 128
    THEN LET length_length == i[1] - 128
         IN [ok |-> TRUE,
             len |-> FromBytesBig(SubSeq(i, 2, Min(1 + length_length, Len(i)))),
             lb |-> Take(i, 1 + length_length),
             rest |-> Drop(i, 1 + length_length)]
    ELSE [ok |-> TRUE, len |-> i[1], lb |-> Take(i, 1), rest |-> Drop(i, 1)]

\* _encode_len(n), n >= 0
_encode_len(n) ==
  IF n < 128 THEN <<n>>
  ELSE LET length_bytes == ByteLength(n)
       IN <<length_bytes + 128>> \o ToBytesBig(n, length_bytes)

RECURSIVE EncodeIntLsb(_)
\* the loop of _encode_int: the groups of seven bits, least significant
\* first, each with the marker bit 0x80
EncodeIntLsb(n) ==
  IF n > 0 THEN <<(n % 128) + 128>> \o EncodeIntLsb(n \div 128) ELSE <<>>

\* nbuf[::-1]
Reverse(s) == [k \in 1..Len(s) |-> s[Len(s) + 1 - k]]

\* _encode_int(n), n >= 0
_encode_int(n) ==
  IF n < 128 THEN <<n>>
  ELSE LET nbuf == EncodeIntLsb(n)
           stripped == [nbuf EXCEPT ![1] = nbuf[1] - 128]
       IN Reverse(stripped)

RECURSIVE DecodeIntLoop(_, _, _)
\* the while loop of _decode_int, pos counted from 1
DecodeIntLoop(b, n, pos) ==
  IF pos > Len(b) THEN Err("IndexError")
  ELSE LET n2 == n * 128 + (b[pos] % 128)
       IN IF b[pos] < 128 THEN [ok |-> TRUE, val |-> n2, rest |-> Drop(b, pos)]
          ELSE DecodeIntLoop(b, n2, pos + 1)

\* _decode_int(b) -> (n, rest)
_decode_int(b) ==
  IF b = <<>> THEN Err("IndexError")
  ELSE IF b[1] < 128 THEN [ok |-> TRUE, val |-> b[1], rest |-> Drop(b, 1)]
  ELSE DecodeIntLoop(b, 0, 1)

\* ------------------------------------------------------------ TLV walker

\* line 80, with l the result of _decode_len(i[1:])
DumbDecodeSlices(i, l) ==
  IF ~l.ok THEN l
  ELSE [ok |-> TRUE, tag |-> i[1],
        span |-> Take(i, 1) \o l.lb \o Take(l.rest, l.len),
        rem |-> Drop(l.rest, l.len)]

\* _dumb_decode(i) -> ((tag, span), remainder)
_dumb_decode(i) ==
  IF i = <<>> THEN Err("IndexError")
  ELSE DumbDecodeSlices(i, _decode_len(Drop(i, 1)))

\* -------------------------------------------------------------- ObjectID

\* Optional[str]: None is <<>>, the string s is <<s>>
None == <<>>

\* ObjectID(name=..., oid=[...]); oid is a Python list, as from_str and
\* from_der build it and as the field's annotation says
ObjectID(name, oid) == [name |-> name, oid |-> oid]

RECURSIVE IntToStr(_)
\* str(n), n >= 0
IntToStr(n) ==
  IF n < 10 THEN <<48 + n>> ELSE Append(IntToStr(n \div 10), 48 + (n % 10))

RECURSIVE JoinDots(_)
\* ".".join(parts)
JoinDots(parts) ==
  IF parts = <<>> THEN <<>>
  ELSE IF Len(parts) = 1 THEN Head(parts)
  ELSE Head(parts) \o <<46>> \o JoinDots(Tail(parts))

\* ObjectID.__str__
ObjectID_str(o) == JoinDots([k \in 1..Len(o.oid) |-> IntToStr(o.oid[k])])

RECURSIVE SplitDots(_, _)
\* oid.split("."), cur is the piece being read
SplitDots(s, cur) ==
  IF s = <<>> THEN <<cur>>
  ELSE IF Head(s) = 46 THEN <<cur>> \o SplitDots(Tail(s), <<>>)
  ELSE SplitDots(Tail(s), Append(cur, Head(s)))

RECURSIVE DigitsToInt(_, _)
DigitsToInt(s, acc) ==
  IF s = <<>> THEN acc ELSE DigitsToInt(Tail(s), 10 * acc + (Head(s) - 48))

\* int(s) on a string of decimal digits; anything else here is a ValueError
IsDigits(s) == s # <<>> /\ \A k \in 1..Len(s) : s[k] \in 48..57

\* ObjectID.from_str(name, oid)
ObjectID_from_str(name, oid) ==
  LET parts == SplitDots(oid, <<>>)
  IN IF \E k \in 1..Len(parts) : ~IsDigits(parts[k]) THEN Err("ValueError")
     ELSE [ok |-> TRUE,
           val |-> ObjectID(name, [k \in 1..Len(parts) |-> DigitsToInt(parts[k], 0)])]

\* ObjectID.__eq__ between two ObjectIDs
ObjectID_eq(a, b) == a.oid = b.oid

\* ObjectID.__hash__: hash(self.oid) of a list
ObjectID_hash(a) == Err("TypeError")

\* ObjectID.__lt__ as dataclass(order=True) generates it:
\* (self.name, self.oid) < (other.name, other.oid)
ObjectID_lt(a, b) ==
  IF a.name # b.name
    THEN IF a.name = None \/ b.name = None THEN Err("TypeError")
         ELSE [ok |-> TRUE, val |-> SeqLess(a.name[1], b.name[1])]
    ELSE [ok |-> TRUE, val |-> SeqLess(a.oid, b.oid)]

\* lines 113-115: the tag, the length of buf, buf
Prefixed(tag, buf) ==
  [ok |-> TRUE, val |-> <<tag>> \o _encode_len(Len(buf)) \o buf]

\* ObjectID.as_der, arcs >= 0; a first octet above 255 cannot be appended
\* to the bytearray
ObjectID_as_der(o) ==
  IF Len(o.oid) < 2 THEN Err("IndexError")
  ELSE IF 40 * o.oid[1] + o.oid[2] > 255 THEN Err("ValueError")
  ELSE Prefixed(6, <<40 * o.oid[1] + o.oid[2]>>
                     \o Concat([k \in 1..(Len(o.oid) - 2) |->
                                  _encode_int(o.oid[k + 2])]))

RECURSIVE DecodeArcs(_, _)
RECURSIVE DecodeArc(_, _)
\* the while loop of ObjectID.from_der
DecodeArcs(b, oid) ==
  IF b = <<>> THEN [ok |-> TRUE, val |-> oid]
  ELSE DecodeArc(_decode_int(b), oid)

\* one turn of it, with d the result of _decode_int(b)
DecodeArc(d, oid) ==
  IF ~d.ok THEN d ELSE DecodeArcs(d.rest, Append(oid, d.val))

\* lines 131: the ObjectID of the decoded arcs, and what trails it
OidResult(arcs, trailing) ==
  IF ~arcs.ok THEN arcs
  ELSE [ok |-> TRUE, val |-> ObjectID(None, arcs.val), rem |-> trailing]

\* min(b[0] // 40, 2)
FirstArc(c) == Min(c \div 40, 2)

\* lines 123-131, with c the content octets
OidContent(c, trailing) ==
  IF c = <<>> THEN Err("IndexError")
  ELSE OidResult(
         DecodeArcs(Drop(c, 1), <<FirstArc(c[1]), c[1] - FirstArc(c[1]) * 40>>),
         trailing)

\* line 121, with l the result of _decode_len(b[1:])
OidSlices(l) ==
  IF ~l.ok THEN l ELSE OidContent(Take(l.rest, l.len), Drop(l.rest, l.len))

\* ObjectID.from_der(b) -> (ObjectID, trailing)
ObjectID_from_der(b) ==
  IF b = <<>> THEN Err("IndexError")
  ELSE IF b[1] # 6 THEN Err("AssertionError")
  ELSE OidSlices(_decode_len(Drop(b, 1)))

\* ================================================== ObjectID: the machine

NoRes == [ok |-> FALSE, err |-> "none"]

\* display names: None, "a", "b"
Names == {None, <<(<<97>>)>>, <<(<<98>>)>>}

\* arcs after the second one
LaterArcs == {0, 127, 128, 113549}

\* the sequences over S of length 0..n
RECURSIVE SeqsUpTo(_, _)
SeqsUpTo(S, n) ==
  IF n = 0 THEN {<<>>}
  ELSE LET shorter == SeqsUpTo(S, n - 1)
       IN shorter \cup {Append(t, x) : t \in shorter, x \in S}

\* the valid arc sequences of the model: first arc 0, 1 or 2, second arc
\* below 40 under a first arc 0 or 1, any second arc under a first arc 2
ArcSeqs ==
  LET heads == {<<a, b>> : a \in {0, 1}, b \in {0, 39}}
                 \cup {<<2, b>> : b \in {0, 39, 175, 176, 999}}
  IN {h \o t : h \in heads, t \in SeqsUpTo(LaterArcs, MaxArcs - 2)}

InitOid ==
  /\ pc = "start"
  /\ inp \in [name : Names, arcs : ArcSeqs]
  /\ res = NoRes
  /\ fp = <<>>
  /\ rets = <<>>

\* ObjectID(name=..., oid=[...])
OidLiteral ==
  /\ pc = "start"
  /\ pc' = "new"
  /\ res' = [ok |-> TRUE, val |-> ObjectID(inp.name, inp.arcs)]
  /\ UNCHANGED <<inp, fp, rets>>

\* ObjectID.from_str(name, "1.2.840")
OidFromStr ==
  /\ pc = "start"
  /\ pc' = "new"
  /\ res' = ObjectID_from_str(inp.name, ObjectID_str(ObjectID(None, inp.arcs)))
  /\ UNCHANGED <<inp, fp, rets>>

\* o.as_der()
OidAsDer ==
  /\ pc = "new"
  /\ res.ok
  /\ pc' = "encoded"
  /\ res' = ObjectID_as_der(res.val)
  /\ UNCHANGED <<inp, fp, rets>>

\* ObjectID.from_der(o.as_der())
OidFromDer ==
  /\ pc = "encoded"
  /\ res.ok
  /\ pc' = "decoded"
  /\ res' = ObjectID_from_der(res.val)
  /\ UNCHANGED <<inp, fp, rets>>

\* a == b, a < b, b < a, hash(a), hash(b) for the object at hand and another
OidCompare ==
  /\ pc \in {"new", "decoded"}
  /\ res.ok
  /\ \E n \in Names, arcs \in ArcSeqs :
       LET a == res.val
           b == ObjectID(n, arcs)
       IN res' = [ok |-> TRUE, a |-> a, b |-> b,
                  eq |-> ObjectID_eq(a, b),
                  lt |-> ObjectID_lt(a, b), gt |-> ObjectID_lt(b, a),
                  hash_a |-> ObjectID_hash(a), hash_b |-> ObjectID_hash(b)]
  /\ pc' = "compared"
  /\ UNCHANGED <<inp, fp, rets>>

NextOid == OidLiteral \/ OidFromStr \/ OidAsDer \/ OidFromDer \/ OidCompare

SpecOid == InitOid /\ [][NextOid]_vars

\* C1: for every valid arc sequence arcs, ObjectID(arcs).as_der() succeeds and
\* ObjectID.from_der of the encoding returns the same arcs and an empty
\* remainder.
OidRoundTrip ==
  /\ pc = "encoded" => res.ok
  /\ pc = "decoded" => res.ok /\ res.val.oid = inp.arcs /\ res.rem = <<>>

\* the name of an ObjectID removed
Nameless(o) == ObjectID(None, o.oid)

\* C7: equality, hash and ordering of two ObjectIDs are determined by the arc
\* sequences alone: the results are those of the two nameless ObjectIDs, the
\* hashes are computed, and identical arcs give equal objects, equal hashes
\* and neither ordered before the other.
OidIdentityByArcs ==
  pc = "compared" =>
    /\ res.eq = ObjectID_eq(Nameless(res.a), Nameless(res.b))
    /\ res.lt = ObjectID_lt(Nameless(res.a), Nameless(res.b))
    /\ res.gt = ObjectID_lt(Nameless(res.b), Nameless(res.a))
    /\ res.hash_a.ok /\ res.hash_b.ok
    /\ res.a.oid = res.b.oid =>
         /\ res.eq
         /\ res.hash_a = res.hash_b
         /\ res.lt.ok /\ ~res.lt.val
         /\ res.gt.ok /\ ~res.gt.val

\* ================================================ the TLV walker: machine

\* the octets raw inputs are made of: tags, short and long length octets
\* (0x80, 0x81, 0x82) and a value octet
RawOctets == {0, 1, 2, 4, 128, 129, 130, 170}

InitTlv ==
  /\ pc = "start"
  /\ inp \in SeqsUpTo(RawOctets, MaxRaw)
  /\ res = NoRes
  /\ fp = <<>>
  /\ rets = <<>>

\* _decode_len(i)
TlvDecodeLen ==
  /\ pc = "start"
  /\ pc' = "length_read"
  /\ res' = _decode_len(inp)
  /\ UNCHANGED <<inp, fp, rets>>

\* _dumb_decode(i)
TlvDumbDecode ==
  /\ pc = "start"
  /\ pc' = "walked"
  /\ res' = _dumb_decode(inp)
  /\ UNCHANGED <<inp, fp, rets>>

NextTlv == TlvDecodeLen \/ TlvDumbDecode

SpecTlv == InitTlv /\ [][NextTlv]_vars

\* C8: _dumb_decode either fails or returns a span and a remainder that
\* together are the input, the span holding the tag, the length field and
\* exactly as many value octets as the length field declares.
DumbDecodeExact ==
  pc = "walked" /\ res.ok =>
    LET l == _decode_len(Drop(inp, 1))
    IN /\ res.span \o res.rem = inp
       /\ Len(res.span) = 1 + Len(l.lb) + l.len

\* ============================================== extensions: the encoders

RECURSIVE EncodeOidsLoop(_, _)
RECURSIVE EncodeOidsStep(_, _, _)
\* for oid in oids: buf.extend(oid.as_der())
EncodeOidsLoop(oids, buf) ==
  IF oids = <<>> THEN [ok |-> TRUE, val |-> buf]
  ELSE EncodeOidsStep(ObjectID_as_der(Head(oids)), Tail(oids), buf)

\* one turn of it, with d the result of oid.as_der()
EncodeOidsStep(d, rest, buf) ==
  IF ~d.ok THEN d ELSE EncodeOidsLoop(rest, buf \o d.val)

\* the prefix put before a buffer that was built without an exception
PrefixedIfBuilt(tag, buf) == IF ~buf.ok THEN buf ELSE Prefixed(tag, buf.val)

\* OpenSSLCertAux.encode_oids(oids, tag)
encode_oids(oids, tag) == PrefixedIfBuilt(tag, EncodeOidsLoop(oids, <<>>))

\* ExtendedKeyUsages.as_der
ExtendedKeyUsages_as_der(eku) == PrefixedIfBuilt(48, EncodeOidsLoop(eku.oids, <<>>))

\* lines 160-176, with id and extension_der the two encodings
ExtensionBuffer(e, id, extension_der) ==
  IF ~id.ok THEN id
  ELSE IF ~extension_der.ok THEN extension_der
  ELSE Prefixed(48, id.val
                      \o (IF e.critical THEN <<1, 1, 255>> ELSE <<>>)
                      \o <<4>>
                      \o _encode_int(Len(extension_der.val))
                      \o extension_der.val)

\* CertExtension.as_der; the extension value is an ExtendedKeyUsages
CertExtension_as_der(e) ==
  ExtensionBuffer(e, ObjectID_as_der(e.ext_id),
                  ExtendedKeyUsages_as_der(e.extension))

\* id-ce-extKeyUsage 2.5.29.37, id-ce-basicConstraints 2.5.29.19
ExtIds == {<<2, 5, 29, 37>>, <<2, 5, 29, 19>>}

\* id-kp-serverAuth, id-kp-clientAuth, id-kp-emailProtection
KeyPurposes ==
  <<(<<1, 3, 6, 1, 5, 5, 7, 3, 1>>), (<<1, 3, 6, 1, 5, 5, 7, 3, 2>>),
    (<<1, 3, 6, 1, 5, 5, 7, 3, 4>>)>>

\* n key purposes, taken in turn starting with the s-th
PurposeList(s, n) ==
  [k \in 1..n |-> ObjectID(None, KeyPurposes[((s + k) % Len(KeyPurposes)) + 1])]

InitExt ==
  /\ pc = "start"
  /\ \E id \in ExtIds, c \in BOOLEAN, s \in 1..Len(KeyPurposes), n \in 0..MaxEku :
       inp = [ext_id |-> ObjectID(None, id), critical |-> c,
              extension |-> [oids |-> PurposeList(s, n)]]
  /\ res = NoRes
  /\ fp = <<>>
  /\ rets = <<>>

\* ExtendedKeyUsages(oids).as_der()
ExtEkuAsDer ==
  /\ pc = "start"
  /\ pc' = "eku_encoded"
  /\ res' = ExtendedKeyUsages_as_der(inp.extension)
  /\ UNCHANGED <<inp, fp, rets>>

\* CertExtension(ext_id, critical, extension).as_der()
ExtAsDer ==
  /\ pc = "start"
  /\ pc' = "ext_encoded"
  /\ res' = CertExtension_as_der(inp)
  /\ UNCHANGED <<inp, fp, rets>>

NextExt == ExtEkuAsDer \/ ExtAsDer

SpecExt == InitExt /\ [][NextExt]_vars

\* the OCTET STRING at the end of a SEQUENCE content: tag 4, a length
\* field that _decode_len reads as the length of inner, then inner
OctetStringOf(octets, l, inner) ==
  /\ octets # <<>> /\ octets[1] = 4
  /\ l.ok /\ l.len = Len(inner) /\ l.rest = inner

\* the SEQUENCE der holds head, then an OCTET STRING of inner, and no more
ExtensionLayout(der, outer, head, inner) ==
  /\ der[1] = 48
  /\ outer.ok /\ outer.len = Len(outer.rest)
  /\ Take(outer.rest, Len(head)) = head
  /\ OctetStringOf(Drop(outer.rest, Len(head)),
                   _decode_len(Drop(outer.rest, Len(head) + 1)), inner)

\* C10: CertExtension.as_der() is one SEQUENCE whose content is the ObjectID
\* encoding, then 01 01 FF exactly when critical, then an OCTET STRING whose
\* length field, read by _decode_len, is the length of the inner value's
\* encoding and whose content is that encoding, with nothing after it.
ExtensionWellFormed ==
  pc = "ext_encoded" =>
    /\ res.ok
    /\ ExtensionLayout(res.val, _decode_len(Drop(res.val, 1)),
                       ObjectID_as_der(inp.ext_id).val
                         \o (IF inp.critical THEN <<1, 1, 255>> ELSE <<>>),
                       ExtendedKeyUsages_as_der(inp.extension).val)

\* ===================================== TBSCertificate and Certificate

\* the fields of a TBSCertificate: the six required spans, and the four
\* optional ones, None or <<span>>
NoFields ==
  [version |-> None, serial_number |-> <<>>, signature |-> <<>>,
   issuer |-> <<>>, validity |-> <<>>, subject |-> <<>>,
   subject_public_key_info |-> <<>>, issuer_unique_id |-> None,
   subject_unique_id |-> None, extensions |-> None]

\* the decoder's locals while it walks the SEQUENCE content: the last tag
\* and span read, the bytes left and the fields stored so far
Walk(ok, tag, dec, b, data) ==
  [ok |-> ok, tag |-> tag, dec |-> dec, b |-> b, data |-> data]

\* lines 201, 205, 209, ...: the locals after _dumb_decode(b) returned d
ElementRead(w, d) ==
  IF ~d.ok THEN d ELSE Walk(TRUE, d.tag, d.span, d.rem, w.data)

\* (tag, dec_bytes), b = _dumb_decode(b)
ReadElement(w) == IF ~w.ok THEN w ELSE ElementRead(w, _dumb_decode(w.b))

\* assert tag == t; data[field] = dec_bytes
RequireTag(r, t, field) ==
  IF ~r.ok THEN r
  ELSE IF r.tag # t THEN Err("AssertionError")
  ELSE [r EXCEPT !.data[field] = r.dec]

\* (tag, dec_bytes), b = _dumb_decode(b); assert tag == t; data[field] = dec_bytes
ReadRequired(w, t, field) == RequireTag(ReadElement(w), t, field)

\* if b: (tag, dec_bytes), b = _dumb_decode(b)
ReadIfMore(w) == IF w.b # <<>> THEN ReadElement(w) ELSE w

\* if tag == t: data[field] = dec_bytes; if b: (tag, dec_bytes), b = _dumb_decode(b)
TakeOptional(w, t, field) ==
  IF ~w.ok THEN w
  ELSE IF w.tag # t THEN w
  ELSE ReadIfMore([w EXCEPT !.data[field] = <<w.dec>>])

\* lines 202-205: if tag == 0xA0: data["version"] = dec_bytes, and read on
TakeVersion(first) ==
  IF ~first.ok THEN first
  ELSE IF first.tag = 160
    THEN ReadElement([first EXCEPT !.data.version = <<first.dec>>])
    ELSE first

\* lines 201-207: the optional version and the serial number
ReadVersionAndSerial(w) ==
  RequireTag(TakeVersion(ReadElement(w)), 2, "serial_number")

\* lines 229-242: what follows subjectPublicKeyInfo
ReadUniqueIdsAndExtensions(w) ==
  IF ~w.ok THEN w
  ELSE IF w.b = <<>> THEN w
  ELSE TakeOptional(
         TakeOptional(
           TakeOptional(ReadElement(w), 161, "issuer_unique_id"),
           162, "subject_unique_id"),
         163, "extensions")

\* line 244: cls(**data), rem
TbsResult(w, rem) ==
  IF ~w.ok THEN Err(w.err) ELSE [ok |-> TRUE, val |-> w.data, rem |-> rem]

\* lines 197-244, with l the result of _decode_len(b[1:])
TbsContent(l) ==
  IF ~l.ok THEN l
  ELSE TbsResult(
         ReadUniqueIdsAndExtensions(
           ReadRequired(
             ReadRequired(
               ReadRequired(
                 ReadRequired(
                   ReadRequired(
                     ReadVersionAndSerial(
                       Walk(TRUE, 0, <<>>, Take(l.rest, l.len), NoFields)),
                     48, "signature"),
                   48, "issuer"),
                 48, "validity"),
               48, "subject"),
             48, "subject_public_key_info")),
         Drop(l.rest, l.len))

\* TBSCertificate.from_der(b) -> (TBSCertificate, rem)
TBSCertificate_from_der(b) ==
  IF b = <<>> THEN Err("IndexError")
  ELSE IF b[1] # 48 THEN Err("AssertionError")
  ELSE TbsContent(_decode_len(Drop(b, 1)))

\* Certificate.from_der without the check of line 266 that nothing is left in
\* the outer content after signatureValue
CertAfterSignatureValueUnchecked(tbs, alg, sig, rem) ==
  IF ~sig.ok THEN sig
  ELSE IF sig.tag # 3 THEN Err("AssertionError")
  ELSE [ok |-> TRUE,
        val |-> [tbs_certificate |-> tbs.val,
                 signature_algorithm |-> alg.span,
                 signature_value |-> sig.span],
        rem |-> rem]

\* lines 263-275, with sig the result of the second _dumb_decode
CertAfterSignatureValue(tbs, alg, sig, rem) ==
  IF ~sig.ok THEN sig
  ELSE IF sig.tag # 3 THEN Err("AssertionError")
  ELSE IF sig.rem # <<>> THEN Err("AssertionError")
  ELSE [ok |-> TRUE,
        val |-> [tbs_certificate |-> tbs.val,
                 signature_algorithm |-> alg.span,
                 signature_value |-> sig.span],
        rem |-> rem]

\* lines 260-263, with alg the result of the first _dumb_decode
CertAfterSignatureAlgorithm(tbs, alg, rem) ==
  IF ~alg.ok THEN alg
  ELSE IF alg.tag # 48 THEN Err("AssertionError")
  ELSE CertAfterSignatureValue(tbs, alg, _dumb_decode(alg.rem), rem)

\* lines 258-260, with tbs the result of TBSCertificate.from_der
CertAfterTbs(tbs, rem) ==
  IF ~tbs.ok THEN tbs
  ELSE CertAfterSignatureAlgorithm(tbs, _dumb_decode(tbs.rem), rem)

\* lines 257-258, with l the result of _decode_len(b[1:])
CertContent(l) ==
  IF ~l.ok THEN l
  ELSE CertAfterTbs(TBSCertificate_from_der(Take(l.rest, l.len)),
                    Drop(l.rest, l.len))

\* Certificate.from_der(b) -> (Certificate, rem)
Certificate_from_der(b) ==
  IF b = <<>> THEN Err("IndexError")
  ELSE IF b[1] # 48 THEN Err("AssertionError")
  ELSE CertContent(_decode_len(Drop(b, 1)))

\* =================================== OpenSSLCertAux, trusted certificates

\* lines 349-356, with trust and reject the two encoded lists
AuxBuffer(aux, trust, reject) ==
  IF ~trust.ok THEN trust
  ELSE IF aux.reject = <<>> THEN Prefixed(48, trust.val)
  ELSE IF ~reject.ok THEN reject
  ELSE Prefixed(48, trust.val \o reject.val)

\* OpenSSLCertAux.as_der
OpenSSLCertAux_as_der(aux) ==
  AuxBuffer(aux, encode_oids(aux.trust, 48), encode_oids(aux.reject, 160))

RECURSIVE DecodeOids(_, _)
RECURSIVE DecodeOid(_, _)
\* while trust_b: trust_oid, trust_b = ObjectID.from_der(trust_b); trust.append(trust_oid)
DecodeOids(b, oids) ==
  IF b = <<>> THEN [ok |-> TRUE, val |-> oids]
  ELSE DecodeOid(ObjectID_from_der(b), oids)

\* one turn of it, with o the result of ObjectID.from_der
DecodeOid(o, oids) ==
  IF ~o.ok THEN o ELSE DecodeOids(o.rem, Append(oids, o.val))

\* line 380: cls(trust=trust, reject=reject), rem
AuxResult(trust, reject, rem) ==
  IF ~reject.ok THEN reject
  ELSE [ok |-> TRUE, val |-> [trust |-> trust.val, reject |-> reject.val],
        rem |-> rem]

\* lines 374-378, with rl the result of _decode_len(b[1:])
AuxRejectSlices(trust, rl, rem) ==
  IF ~rl.ok THEN rl
  ELSE AuxResult(trust, DecodeOids(Take(rl.rest, rl.len), <<>>), rem)

\* lines 372-380: the reject list, when the bytes left start with tag 0xA0
AuxReject(trust, b, rem) ==
  IF ~trust.ok THEN trust
  ELSE IF b # <<>> /\ b[1] = 160
    THEN AuxRejectSlices(trust, _decode_len(Drop(b, 1)), rem)
    ELSE AuxResult(trust, [ok |-> TRUE, val |-> <<>>], rem)

\* lines 366-370, with tl the result of _decode_len(b[1:])
AuxTrustSlices(tl, rem) ==
  IF ~tl.ok THEN tl
  ELSE AuxReject(DecodeOids(Take(tl.rest, tl.len), <<>>),
                 Drop(tl.rest, tl.len), rem)

\* lines 364-365, with body the content of the outer SEQUENCE
AuxTrust(body, rem) ==
  IF body = <<>> THEN Err("IndexError")
  ELSE IF body[1] # 48 THEN Err("AssertionError")
  ELSE AuxTrustSlices(_decode_len(Drop(body, 1)), rem)

\* line 362, with l the result of _decode_len(b[1:])
AuxSlices(l) ==
  IF ~l.ok THEN l ELSE AuxTrust(Take(l.rest, l.len), Drop(l.rest, l.len))

\* OpenSSLCertAux.from_der(b) -> (OpenSSLCertAux, rem)
OpenSSLCertAux_from_der(b) ==
  IF b = <<>> THEN Err("IndexError")
  ELSE IF b[1] # 48 THEN Err("AssertionError")
  ELSE AuxSlices(_decode_len(Drop(b, 1)))

\* "TRUSTED CERTIFICATE"
TRUSTED_CERTIFICATE ==
  <<84, 82, 85, 83, 84, 69, 68, 32, 67, 69, 82, 84, 73, 70, 73, 67, 65, 84, 69>>

\* PEMBlock(name=..., content=...)
PEMBlock(name, content) == [name |-> name, content |-> content]

\* line 384, with aux the result of certaux.as_der()
TrustedBlock(cert, aux) ==
  IF ~aux.ok THEN aux
  ELSE [ok |-> TRUE, val |-> PEMBlock(TRUSTED_CERTIFICATE, cert \o aux.val)]

\* to_trusted_certificate(cert, certaux)
to_trusted_certificate(cert, certaux) ==
  TrustedBlock(cert, OpenSSLCertAux_as_der(certaux))

\* line 394, with aux the result of OpenSSLCertAux.from_der(trailing)
TrustedResult(cert_bytes, aux) ==
  IF ~aux.ok THEN aux
  ELSE [ok |-> TRUE, cert_bytes |-> cert_bytes, cert_aux |-> aux.val,
        trailing |-> aux.rem]

\* lines 392-394, with cert the result of Certificate.from_der(pb.content)
TrustedSplit(pb, cert) ==
  IF ~cert.ok THEN cert
  ELSE TrustedResult(Take(pb.content, Len(pb.content) - Len(cert.rem)),
                     OpenSSLCertAux_from_der(cert.rem))

\* parse_trusted_certificate(pb) -> (cert_bytes, cert_aux, trailing)
parse_trusted_certificate(pb) ==
  IF pb.name # TRUSTED_CERTIFICATE THEN Err("AssertionError")
  ELSE TrustedSplit(pb, Certificate_from_der(pb.content))

\* OpenSSLCertAux.__eq__ as the dataclass generates it: the two lists compared
\* element by element with ObjectID.__eq__
OpenSSLCertAux_eq(x, y) ==
  /\ Len(x.trust) = Len(y.trust)
  /\ \A k \in 1..Len(x.trust) : ObjectID_eq(x.trust[k], y.trust[k])
  /\ Len(x.reject) = Len(y.reject)
  /\ \A k \in 1..Len(x.reject) : ObjectID_eq(x.reject[k], y.reject[k])

\* ============================================ certificates: the machine

\* one element: tag, computed length, content
TLV(tag, content) == <<tag>> \o _encode_len(Len(content)) \o content

\* the element a tail tag stands for: issuerUniqueID [1], subjectUniqueID [2],
\* extensions [3], or a NULL (tag 5), which X.509 has no place for
TailElement(tag) ==
  CASE tag = 161 -> TLV(161, <<0, 170>>)
    [] tag = 162 -> TLV(162, <<0, 187>>)
    [] tag = 163 -> TLV(163, TLV(48, <<>>))
    [] OTHER -> TLV(tag, <<>>)

TailTags == {161, 162, 163, 5}

\* the octets of a TBSCertificate: version [0] when asked for, serial number,
\* signature, issuer, validity, subject, subjectPublicKeyInfo (each with a
\* content of its own), then the tail elements
TbsBytes(hasVersion, tail) ==
  TLV(48,
      (IF hasVersion THEN TLV(160, <<2, 1, 2>>) ELSE <<>>)
        \o TLV(2, <<77>>)
        \o TLV(48, <<1>>) \o TLV(48, <<2>>) \o TLV(48, <<3>>)
        \o TLV(48, <<4>>) \o TLV(48, <<5>>)
        \o Concat([k \in 1..Len(tail) |-> TailElement(tail[k])]))

\* the octets of a Certificate around tbs; delta is how much more content
\* the outer length declares than is there (0: exact)
CertBytes(tbs, delta) ==
  LET content == tbs \o TLV(48, <<6>>) \o TLV(3, <<0, 204>>)
  IN <<48>> \o _encode_len(Len(content) + delta) \o content

\* some ObjectIDs for trust and reject lists
ServerAuth == ObjectID(None, <<1, 3, 6, 1, 5, 5, 7, 3, 1>>)
ClientAuth == ObjectID(<<(<<97>>)>>, <<1, 3, 6, 1, 5, 5, 7, 3, 2>>)

\* the lists given to OpenSSLCertAux; 2.999.3 is encodable only with a first
\* octet above 255
AuxSet ==
  [trust : {<<>>, <<ServerAuth>>, <<ServerAuth, ClientAuth>>,
            <<ClientAuth, ServerAuth>>, <<ObjectID(None, <<2, 999, 3>>)>>},
   reject : {<<>>, <<ClientAuth>>, <<ClientAuth, ServerAuth>>}]

\* the octet appended to an encoding
ExtraOctets == {0, 48, 255}

InitCert ==
  /\ pc = "start"
  /\ \E v \in BOOLEAN, tail \in SeqsUpTo(TailTags, MaxTail), delta \in 0..MaxDelta :
       LET tbs == TbsBytes(v, tail)
       IN inp = [tbs |-> tbs, cert |-> CertBytes(tbs, delta),
                 aux |-> [trust |-> <<>>, reject |-> <<>>], extra |-> <<>>]
  /\ res = NoRes
  /\ fp = <<>>
  /\ rets = <<>>

\* TBSCertificate.from_der(tbs)
CertTbsFromDer ==
  /\ pc = "start"
  /\ pc' = "tbs_decoded"
  /\ res' = TBSCertificate_from_der(inp.tbs)
  /\ UNCHANGED <<inp, fp, rets>>

\* Certificate.from_der(cert)
CertFromDer ==
  /\ pc = "start"
  /\ pc' = "cert_decoded"
  /\ res' = Certificate_from_der(inp.cert)
  /\ UNCHANGED <<inp, fp, rets>>

\* Certificate.from_der(cert + bytes([x]))
CertFromDerExtra ==
  /\ pc = "start"
  /\ \E x \in ExtraOctets :
       /\ inp' = [inp EXCEPT !.extra = <<x>>]
       /\ res' = Certificate_from_der(inp.cert \o <<x>>)
  /\ pc' = "extra_decoded"
  /\ UNCHANGED <<fp, rets>>

\* to_trusted_certificate(cert, aux)
CertToTrusted ==
  /\ pc = "start"
  /\ \E aux \in AuxSet :
       /\ inp' = [inp EXCEPT !.aux = aux]
       /\ res' = to_trusted_certificate(inp.cert, aux)
  /\ pc' = "armored"
  /\ UNCHANGED <<fp, rets>>

\* parse_trusted_certificate(to_trusted_certificate(cert, aux))
CertParseTrusted ==
  /\ pc = "armored"
  /\ res.ok
  /\ pc' = "parsed"
  /\ res' = parse_trusted_certificate(res.val)
  /\ UNCHANGED <<inp, fp, rets>>

NextCert ==
  CertTbsFromDer \/ CertFromDer \/ CertFromDerExtra \/ CertToTrusted
    \/ CertParseTrusted

SpecCert == InitCert /\ [][NextCert]_vars

\* r is a decoding of o's arcs with nothing left
SameArcs(o, r) == r.ok /\ r.val.oid = o.oid /\ r.rem = <<>>

\* d is an encoding of o that decodes to o's arcs
DecodesBack(o, d) == d.ok /\ SameArcs(o, ObjectID_from_der(d.val))

\* the ObjectID survives as_der then from_der
RoundTrips(o) == DecodesBack(o, ObjectID_as_der(o))

\* a decoding that succeeded and left nothing
IsWhole(c) == c.ok /\ c.rem = <<>>

\* Certificate.from_der accepts the encoding and leaves nothing
AcceptedWhole(cert) == IsWhole(Certificate_from_der(cert))

\* C2: for a cert that Certificate.from_der accepts with an empty remainder
\* and an aux whose ObjectIDs all round-trip,
\* parse_trusted_certificate(to_trusted_certificate(cert, aux)) is
\* (cert, aux, b"").
TrustedRoundTrip ==
  (/\ pc \in {"armored", "parsed"}
   /\ AcceptedWhole(inp.cert)
   /\ \A k \in 1..Len(inp.aux.trust) : RoundTrips(inp.aux.trust[k])
   /\ \A k \in 1..Len(inp.aux.reject) : RoundTrips(inp.aux.reject[k]))
  => /\ res.ok
     /\ pc = "parsed" =>
          /\ res.cert_bytes = inp.cert
          /\ OpenSSLCertAux_eq(res.cert_aux, inp.aux)
          /\ res.trailing = <<>>

\* a length field that declares exactly the octets that follow it
DeclaresAll(l) == l.ok /\ l.len = Len(l.rest)

\* a length field that declares more octets than follow it
DeclaresMore(l) == l.ok /\ l.len > Len(l.rest)

\* the outer length of the encoding declares exactly the octets that follow it
OuterExact(b) == DeclaresAll(_decode_len(Drop(b, 1)))

OuterExactCert == OuterExact(inp.cert)

\* the outer length of the encoding declares more octets than follow it
OuterShort(b) == DeclaresMore(_decode_len(Drop(b, 1)))

\* the same for the certificates whose outer length declares exactly the
\* octets present: an outer length that declares more is the only case of
\* these inputs that breaks the round trip
TrustedRoundTripExact ==
  (pc \in {"armored", "parsed"} /\ OuterExactCert) => TrustedRoundTrip

\* C3 as stated: Certificate.from_der fails on a valid Certificate encoding
\* followed by one extra byte.
ExtraByteFails ==
  pc = "extra_decoded" /\ AcceptedWhole(inp.cert) /\ OuterExact(inp.cert)
    => ~res.ok

\* C3 as amended: a byte after the outer SEQUENCE of a valid Certificate
\* encoding is no error, from_der returns the same Certificate and that byte
\* as the remainder; from_der fails by its assertion when the extra byte lies
\* inside the outer SEQUENCE, after signatureValue.
ExtraByteIsRemainder ==
  pc = "extra_decoded" /\ AcceptedWhole(inp.cert) =>
    /\ OuterExact(inp.cert) =>
         /\ res.ok
         /\ res.rem = inp.extra
         /\ res.val = Certificate_from_der(inp.cert).val
    /\ OuterShort(inp.cert) => ~res.ok /\ res.err = "AssertionError"

\* C3 witness: a valid encoding plus one byte was decoded, the byte came back
ExtraByteReturned ==
  /\ pc = "extra_decoded"
  /\ AcceptedWhole(inp.cert) /\ OuterExact(inp.cert)
  /\ res.ok /\ res.rem = inp.extra /\ inp.extra # <<>>

RECURSIVE ElementTags(_)
RECURSIVE ElementTagsAfter(_, _)
\* the tags of the elements of a SEQUENCE content
ElementTags(b) ==
  IF b = <<>> THEN {} ELSE ElementTagsAfter(b, _dumb_decode(b))

ElementTagsAfter(b, d) ==
  IF ~d.ok THEN {b[1]} ELSE {d.tag} \cup ElementTags(d.rem)

\* an optional field as bytes: nothing when absent
Opt(f) == IF f = None THEN <<>> ELSE f[1]

\* the fields of t in X.509 order are content, and each optional field is
\* there exactly when its context tag is among tags
FieldsCover(t, content, tags) ==
  /\ Opt(t.version) \o t.serial_number \o t.signature \o t.issuer
       \o t.validity \o t.subject \o t.subject_public_key_info
       \o Opt(t.issuer_unique_id) \o Opt(t.subject_unique_id)
       \o Opt(t.extensions) = content
  /\ (t.version # None) <=> (160 \in tags)
  /\ (t.issuer_unique_id # None) <=> (161 \in tags)
  /\ (t.subject_unique_id # None) <=> (162 \in tags)
  /\ (t.extensions # None) <=> (163 \in tags)

\* the content octets of the outer SEQUENCE, l its length field as read
ContentOf(l) == Take(l.rest, l.len)

\* C4: when TBSCertificate.from_der succeeds, its fields in X.509 order
\* concatenate to the content octets of the outer SEQUENCE, and each optional
\* field is present exactly when an element with its context tag is.
TbsFieldsCoverContent ==
  pc = "tbs_decoded" /\ res.ok =>
    FieldsCover(res.val, ContentOf(_decode_len(Drop(inp.tbs, 1))),
                ElementTags(ContentOf(_decode_len(Drop(inp.tbs, 1)))))

\* ============================================================ PEM armor

\* the 64 characters of the base64 alphabet by value: A-Z a-z 0-9 + /
B64Char(v) ==
  IF v < 26 THEN 65 + v
  ELSE IF v < 52 THEN 97 + (v - 26)
  ELSE IF v < 62 THEN 48 + (v - 52)
  ELSE IF v = 62 THEN 43 ELSE 47

\* the value of a character, 64 for a character outside the alphabet
B64Value(c) ==
  IF c \in 65..90 THEN c - 65
  ELSE IF c \in 97..122 THEN c - 97 + 26
  ELSE IF c \in 48..57 THEN c - 48 + 52
  ELSE IF c = 43 THEN 62
  ELSE IF c = 47 THEN 63 ELSE 64

RECURSIVE b64encode(_)
\* base64.b64encode(b).decode("utf-8"): three octets to four characters,
\* the last group padded with "="
b64encode(b) ==
  IF b = <<>> THEN <<>>
  ELSE IF Len(b) = 1
    THEN <<B64Char(b[1] \div 4), B64Char((b[1] % 4) * 16), 61, 61>>
  ELSE IF Len(b) = 2
    THEN <<B64Char(b[1] \div 4), B64Char((b[1] % 4) * 16 + b[2] \div 16),
           B64Char((b[2] % 16) * 4), 61>>
  ELSE <<B64Char(b[1] \div 4), B64Char((b[1] % 4) * 16 + b[2] \div 16),
         B64Char((b[2] % 16) * 4 + b[3] \div 64), B64Char(b[3] % 64)>>
         \o b64encode(Drop(b, 3))

\* the locals of binascii.a2b_base64 (without strict_mode): quad_pos
\* characters of the current group are in, leftchar holds their bits not yet
\* written, pads counts the "=" seen in a row, done is set by "goto done";
\* the body of its loop for one character
B64Step(st, c) ==
  IF c = 61
    THEN IF st.quad_pos >= 2 /\ st.quad_pos + st.pads + 1 >= 4
           THEN [st EXCEPT !.done = TRUE]
           ELSE IF st.quad_pos >= 2 THEN [st EXCEPT !.pads = @ + 1] ELSE st
  ELSE IF B64Value(c) = 64 THEN st
  ELSE IF st.quad_pos = 0
    THEN [st EXCEPT !.quad_pos = 1, !.pads = 0, !.leftchar = B64Value(c)]
  ELSE IF st.quad_pos = 1
    THEN [st EXCEPT !.quad_pos = 2, !.pads = 0, !.leftchar = B64Value(c) % 16,
                    !.out = Append(@, st.leftchar * 4 + B64Value(c) \div 16)]
  ELSE IF st.quad_pos = 2
    THEN [st EXCEPT !.quad_pos = 3, !.pads = 0, !.leftchar = B64Value(c) % 4,
                    !.out = Append(@, st.leftchar * 16 + B64Value(c) \div 4)]
  ELSE [st EXCEPT !.quad_pos = 0, !.pads = 0, !.leftchar = 0,
                  !.out = Append(@, st.leftchar * 64 + B64Value(c))]

RECURSIVE B64Run(_, _)
\* the loop over a stretch of the text, until the end or "goto done"
B64Run(st, s) ==
  IF st.done \/ s = <<>> THEN st ELSE B64Run(B64Step(st, Head(s)), Tail(s))

RECURSIVE B64Loop(_, _)
\* the loop over the whole text, eight characters at a time
B64Loop(st, s) ==
  IF st.done \/ s = <<>> THEN st
  ELSE B64Loop(B64Run(st, Take(s, 8)), Drop(s, 8))

\* after the loop: a group left open is an error ("Incorrect padding")
B64Finish(st) ==
  IF ~st.done /\ st.quad_pos # 0 THEN Err("binascii.Error")
  ELSE [ok |-> TRUE, val |-> st.out]

\* base64.b64decode(s)
b64decode(s) ==
  B64Finish(B64Loop([quad_pos |-> 0, leftchar |-> 0, pads |-> 0, out |-> <<>>,
                     done |-> FALSE], s))

\* the width PEMBlock.encode wraps at
WrapWidth == 64

RECURSIVE Wrap(_, _)
\* textwrap.wrap(text, width) for a text without whitespace or hyphens:
\* pieces of width characters, the last one shorter; no piece for ""
Wrap(text, width) ==
  IF text = <<>> THEN <<>>
  ELSE <<Take(text, width)>> \o Wrap(Drop(text, width), width)

RECURSIVE JoinNewline(_)
\* "\n".join(lines)
JoinNewline(lines) ==
  IF lines = <<>> THEN <<>>
  ELSE IF Len(lines) = 1 THEN Head(lines)
  ELSE Head(lines) \o <<10>> \o JoinNewline(Tail(lines))

\* "-----"
Dashes == <<45, 45, 45, 45, 45>>

\* "-----BEGIN "
BeginOpen == Dashes \o <<66, 69, 71, 73, 78, 32>>

\* "-----END "
EndOpen == Dashes \o <<69, 78, 68, 32>>

\* PEMBlock.encode: the template filled in, every line ended by "\n"
PEMBlock_encode(pb) ==
  BeginOpen \o pb.name \o Dashes \o <<10>>
    \o JoinNewline(Wrap(b64encode(pb.content), WrapWidth)) \o <<10>>
    \o EndOpen \o pb.name \o Dashes \o <<10>>

\* s[from:] of a line, counted from 1, up to its last n characters
Middle(ln, from, n) == SubSeq(ln, from, Len(ln) - n)

\* re.match(r"^-----BEGIN ([^-]+)-----$", ln), ln without its "\n"
IsBeginLine(ln) ==
  /\ Len(ln) > Len(BeginOpen) + Len(Dashes)
  /\ Take(ln, Len(BeginOpen)) = BeginOpen
  /\ Drop(ln, Len(ln) - Len(Dashes)) = Dashes
  /\ \A k \in (Len(BeginOpen) + 1)..(Len(ln) - Len(Dashes)) : ln[k] # 45

\* start_match.group(1)
BeginLabel(ln) == Middle(ln, Len(BeginOpen) + 1, Len(Dashes))

\* re.match(f"^-----END {re.escape(name)}-----$", ln)
IsEndLine(ln, name) == ln = EndOpen \o name \o Dashes

RECURSIVE ScanBegin(_, _)
\* lines 312-317: the first loop over the file
ScanBegin(lines, prefix) ==
  IF lines = <<>> THEN [found |-> FALSE, prefix |-> prefix, rest |-> <<>>]
  ELSE IF IsBeginLine(Head(lines))
    THEN [found |-> TRUE, name |-> BeginLabel(Head(lines)), prefix |-> prefix,
          rest |-> Tail(lines)]
  ELSE ScanBegin(Tail(lines), Append(prefix, Head(lines)))

RECURSIVE ScanEnd(_, _, _)
\* lines 323-328: the second loop over the file
ScanEnd(lines, name, bits) ==
  IF lines = <<>> THEN [found |-> FALSE, bits |-> bits, rest |-> <<>>]
  ELSE IF IsEndLine(Head(lines), name)
    THEN [found |-> TRUE, bits |-> bits, rest |-> Tail(lines)]
  ELSE ScanEnd(Tail(lines), name, Append(bits, Head(lines)))

\* "".join(lines), each line with its "\n"
JoinLines(lines) == Concat([k \in 1..Len(lines) |-> lines[k] \o <<10>>])

\* what a call returns or raises, and the lines left in the file
Returned(ret, rest) == [ret |-> ret, rest |-> rest]

\* return None
NotFound == [kind |-> "none"]

\* an exception out of decode_from_file
Raised(e) == [kind |-> "error", err |-> e]

\* line 331, with content the result of base64.b64decode
BlockDecoded(s, content, rest) ==
  IF ~content.ok THEN Returned(Raised(content.err), rest)
  ELSE Returned([kind |-> "block", prefix |-> JoinLines(s.prefix),
                 block |-> PEMBlock(s.name, content.val)], rest)

\* lines 329-331, with e the outcome of the second loop
AfterEndScan(s, e) ==
  IF ~e.found THEN Returned(NotFound, e.rest)
  ELSE BlockDecoded(s, b64decode(JoinLines(e.bits)), e.rest)

\* lines 318-329, with s the outcome of the first loop; a second loop that
\* never runs leaves end_match unbound
AfterBeginScan(s) ==
  IF ~s.found THEN Returned(NotFound, s.rest)
  ELSE IF s.rest = <<>> THEN Returned(Raised("UnboundLocalError"), <<>>)
  ELSE AfterEndScan(s, ScanEnd(s.rest, s.name, <<>>))

\* PEMBlock.decode_from_file(fp), fp the lines not yet read
PEMBlock_decode_from_file(lines) == AfterBeginScan(ScanBegin(lines, <<>>))

\* the places of the "\n" in a text, and the place of the i-th of them
Newlines(text) == {k \in 1..Len(text) : text[k] = 10}

NewlineAt(nl, i) ==
  IF i = 0 THEN 0 ELSE CHOOSE p \in nl : Cardinality({q \in nl : q < p}) = i - 1

\* the lines a text file yields, without their "\n", text ending in "\n"
LinesBetween(text, nl) ==
  [i \in 1..Cardinality(nl) |->
     SubSeq(text, NewlineAt(nl, i - 1) + 1, NewlineAt(nl, i) - 1)]

SplitLines(text) == LinesBetween(text, Newlines(text))

\* ==================================================== PEM: the machines

\* labels: "X", "A B" and the empty label
Labels == {<<88>>, <<65, 32, 66>>, <<>>}

\* contents: empty, one and three octets, and 49 octets, whose base64 text
\* is longer than one line
Contents == {<<>>, <<77>>, <<0, 255, 16>>, [k \in 1..49 |-> (k * 37) % 256]}

\* text before a block: nothing, or the line "foo" and an END marker line
Prefixes == {<<>>, <<102, 111, 111, 10>> \o EndOpen \o <<88>> \o Dashes \o <<10>>}

\* one block and the text before it
Armored == [prefix : Prefixes, block : [name : Labels, content : Contents]]

\* the text of a stream: each prefix followed by its block, encoded
StreamText(items) ==
  Concat([k \in 1..Len(items) |->
            items[k].prefix \o PEMBlock_encode(items[k].block)])

InitPem ==
  /\ pc = "open"
  /\ \E items \in SeqsUpTo(Armored, MaxBlocks) :
       /\ inp = [items |-> items, calls |-> Len(items) + 1]
       /\ fp = SplitLines(StreamText(items))
  /\ res = NoRes
  /\ rets = <<>>

\* PEMBlock.decode_from_file(fp), once more on the same file
PemDecodeFromFile ==
  /\ pc = "open"
  /\ Len(rets) < inp.calls
  /\ rets' = Append(rets, [before |-> fp,
                           ret |-> PEMBlock_decode_from_file(fp).ret])
  /\ fp' = PEMBlock_decode_from_file(fp).rest
  /\ UNCHANGED <<pc, inp, res>>

\* PEMBlock.decode(b): decode_from_file on a StringIO of b, then sio.read()
PemDecode ==
  /\ pc = "open"
  /\ rets = <<>>
  /\ pc' = "decoded"
  /\ res' = [ret |-> PEMBlock_decode_from_file(fp).ret,
             tail |-> IF PEMBlock_decode_from_file(fp).ret.kind = "block"
                        THEN JoinLines(PEMBlock_decode_from_file(fp).rest)
                        ELSE <<>>]
  /\ UNCHANGED <<inp, fp, rets>>

NextPem == PemDecodeFromFile \/ PemDecode

SpecPem == InitPem /\ [][NextPem]_vars

\* the i-th call returned the i-th prefix and block
ReturnedItem(r, item) ==
  /\ r.kind = "block"
  /\ r.prefix = item.prefix
  /\ r.block.name = item.block.name
  /\ r.block.content = item.block.content

\* the calls made so far returned the blocks in order, then None
InOrderThenNone ==
  \A i \in 1..Len(rets) :
    IF i <= Len(inp.items) THEN ReturnedItem(rets[i].ret, inp.items[i])
    ELSE rets[i].ret = NotFound

\* C5: on a stream of k prefixed blocks, whatever their labels
\* (no "-", no line break), the i-th call of decode_from_file returns the
\* i-th prefix and block, and call k+1 returns None.
SequentialBlocks == InOrderThenNone

\* the same for the streams all of whose labels are non-empty: the empty
\* label is the only case of these streams that decode_from_file loses
SequentialLabelledBlocks ==
  (\A i \in 1..Len(inp.items) : inp.items[i].block.name # <<>>)
    => InOrderThenNone

\* a stream of at least two blocks with labels, one of them of
\* more than one base64 line and one after a prefix, read to the end
AllBlocksRead ==
  /\ Len(inp.items) >= 2
  /\ \A i \in 1..Len(inp.items) : inp.items[i].block.name # <<>>
  /\ \E i \in 1..Len(inp.items) : Len(inp.items[i].block.content) > 48
  /\ \E i \in 1..Len(inp.items) : inp.items[i].prefix # <<>>
  /\ Len(rets) = Len(inp.items) + 1
  /\ rets[Len(rets)].ret = NotFound

\* the lines a raw stream is made of: BEGIN X, BEGIN Y, END X, END Y, a
\* line of base64 ("QUJD") and a line of text ("foo")
RawLines ==
  {BeginOpen \o <<88>> \o Dashes, BeginOpen \o <<89>> \o Dashes,
   EndOpen \o <<88>> \o Dashes, EndOpen \o <<89>> \o Dashes,
   <<81, 85, 74, 68>>, <<102, 111, 111>>}

InitPemText ==
  /\ pc = "open"
  /\ fp \in SeqsUpTo(RawLines, MaxLines)
  /\ inp = [items |-> <<>>, calls |-> 2]
  /\ res = NoRes
  /\ rets = <<>>

SpecPemText == InitPemText /\ [][NextPem]_vars

\* no line is a BEGIN marker
NoBegin(lines) == \A k \in 1..Len(lines) : ~IsBeginLine(lines[k])

\* a BEGIN marker is seen and no END marker with its label follows it
Unterminated(lines) ==
  \E j \in 1..Len(lines) :
    /\ IsBeginLine(lines[j])
    /\ NoBegin(Take(lines, j - 1))
    /\ \A k \in (j + 1)..Len(lines) : ~IsEndLine(lines[k], BeginLabel(lines[j]))

\* C6: decode_from_file returns None exactly when no BEGIN marker is left in
\* the stream, and raises an error when a BEGIN marker is seen and no END
\* marker with the same label follows.
NoneOnlyWithoutBegin ==
  \A i \in 1..Len(rets) :
    /\ (rets[i].ret = NotFound) <=> NoBegin(rets[i].before)
    /\ Unterminated(rets[i].before) => rets[i].ret.kind = "error"

\* ==================================================== DistinguishedName

\* a continuation octet 10xxxxxx
IsCont(x) == x \in 128..191

RECURSIVE Utf8Decode(_, _)
\* bytes.decode("utf-8"): strict, one to four octets a character
Utf8Decode(b, out) ==
  IF b = <<>> THEN [ok |-> TRUE, val |-> out]
  ELSE IF b[1] < 128 THEN Utf8Decode(Drop(b, 1), Append(out, b[1]))
  ELSE IF /\ b[1] \in 194..223 /\ Len(b) >= 2 /\ IsCont(b[2])
    THEN Utf8Decode(Drop(b, 2), Append(out, (b[1] - 192) * 64 + (b[2] - 128)))
  ELSE IF /\ b[1] \in 224..239 /\ Len(b) >= 3 /\ IsCont(b[2]) /\ IsCont(b[3])
          /\ (b[1] = 224 => b[2] >= 160) /\ (b[1] = 237 => b[2] <= 159)
    THEN Utf8Decode(Drop(b, 3),
                    Append(out, (b[1] - 224) * 4096 + (b[2] - 128) * 64
                                  + (b[3] - 128)))
  ELSE IF /\ b[1] \in 240..244 /\ Len(b) >= 4
          /\ IsCont(b[2]) /\ IsCont(b[3]) /\ IsCont(b[4])
          /\ (b[1] = 240 => b[2] >= 144) /\ (b[1] = 244 => b[2] <= 143)
    THEN Utf8Decode(Drop(b, 4),
                    Append(out, (b[1] - 240) * 262144 + (b[2] - 128) * 4096
                                  + (b[3] - 128) * 64 + (b[4] - 128)))
  ELSE Err("UnicodeDecodeError")

\* PrintableString, T61String, UTF8String, IA5String, BMPString
StringTags == {19, 20, 12, 22, 30}

\* line 425, with text the result of part_b.decode("utf-8")
DnPair(oid, text) ==
  IF ~text.ok THEN text ELSE [ok |-> TRUE, val |-> <<oid, text.val>>]

\* lines 423-425, with l the result of _decode_len(seq_b[1:]): the slices
\* are taken with seq_len
DnPartSlices(oid, l, seq_len) ==
  IF ~l.ok THEN l
  ELSE IF Drop(l.rest, seq_len) # <<>> THEN Err("AssertionError")
  ELSE DnPair(oid, Utf8Decode(Take(l.rest, seq_len), <<>>))

\* lines 420-422, with o the result of ObjectID.from_der(seq_b)
DnAfterOid(o, seq_len) ==
  IF ~o.ok THEN o
  ELSE IF o.rem = <<>> THEN Err("IndexError")
  ELSE IF o.rem[1] \notin StringTags THEN Err("AssertionError")
  ELSE DnPartSlices(o.val, _decode_len(Drop(o.rem, 1)), seq_len)

RECURSIVE DnSetLoop(_, _)
RECURSIVE DnSeqSlices(_, _)
RECURSIVE DnSetAppend(_, _, _)
\* lines 414-425: while set_b
DnSetLoop(set_b, set_bits) ==
  IF set_b = <<>> THEN [ok |-> TRUE, val |-> set_bits]
  ELSE IF set_b[1] # 48 THEN Err("AssertionError")
  ELSE DnSeqSlices(_decode_len(Drop(set_b, 1)), set_bits)

\* lines 417-419, with l the result of _decode_len(set_b[1:])
DnSeqSlices(l, set_bits) ==
  IF ~l.ok THEN l
  ELSE DnSetAppend(DnAfterOid(ObjectID_from_der(Take(l.rest, l.len)), l.len),
                   Drop(l.rest, l.len), set_bits)

\* set_bits.append(...), and the next turn
DnSetAppend(pair, set_b, set_bits) ==
  IF ~pair.ok THEN pair ELSE DnSetLoop(set_b, Append(set_bits, pair.val))

RECURSIVE DnLoop(_, _)
RECURSIVE DnSetSlices(_, _)
RECURSIVE DnAppend(_, _, _)
\* lines 408-426: while b
DnLoop(b, bits) ==
  IF b = <<>> THEN [ok |-> TRUE, val |-> bits]
  ELSE IF b[1] # 49 THEN Err("AssertionError")
  ELSE DnSetSlices(_decode_len(Drop(b, 1)), bits)

\* line 411, with l the result of _decode_len(b[1:])
DnSetSlices(l, bits) ==
  IF ~l.ok THEN l
  ELSE DnAppend(DnSetLoop(Take(l.rest, l.len), <<>>), Drop(l.rest, l.len), bits)

\* bits.append(set_bits), and the next turn
DnAppend(set_bits, b, bits) ==
  IF ~set_bits.ok THEN set_bits ELSE DnLoop(b, Append(bits, set_bits.val))

\* line 427: cls(bits=bits), rem
DnResult(bits, rem) ==
  IF ~bits.ok THEN bits ELSE [ok |-> TRUE, val |-> bits.val, rem |-> rem]

\* line 405, with l the result of _decode_len(b[1:])
DnSlices(l) ==
  IF ~l.ok THEN l
  ELSE DnResult(DnLoop(Take(l.rest, l.len), <<>>), Drop(l.rest, l.len))

\* DistinguishedName.from_der(b) -> (DistinguishedName, rem)
DistinguishedName_from_der(b) ==
  IF b = <<>> THEN Err("IndexError")
  ELSE IF b[1] # 48 THEN Err("AssertionError")
  ELSE DnSlices(_decode_len(Drop(b, 1)))

\* ===================================================== DN: the machine

\* an attribute as it is put into the input: the tag and the content of its
\* string element, and the octets that follow the string in the SEQUENCE
Attrs ==
  [tag : {12, 19, 5},
   value : {<<>>, <<65>>, <<195, 169>>, <<255>>},
   extra : {<<>>, <<5, 0>>}]

\* id-at-commonName 2.5.4.3
CommonName == <<6, 3, 85, 4, 3>>

\* the SEQUENCE of one attribute
AttrBytes(a) == TLV(48, CommonName \o TLV(a.tag, a.value) \o a.extra)

\* the SET of some attributes
SetBytes(attrs) == TLV(49, Concat([k \in 1..Len(attrs) |-> AttrBytes(attrs[k])]))

\* a Name of some SETs
DnBytes(sets) == TLV(48, Concat([k \in 1..Len(sets) |-> SetBytes(sets[k])]))

\* the SET of the input, if it has attributes, and then perhaps a SET of one
\* well-formed attribute, "A"
InitDn ==
  /\ pc = "start"
  /\ \E attrs \in SeqsUpTo(Attrs, MaxAttrs), more \in BOOLEAN :
       LET sets == (IF attrs = <<>> THEN <<>> ELSE <<attrs>>)
                     \o (IF more THEN <<(<<[tag |-> 19, value |-> <<65>>, extra |-> <<>>]>>)>> ELSE <<>>)
       IN inp = [sets |-> sets, dn |-> DnBytes(sets)]
  /\ res = NoRes
  /\ fp = <<>>
  /\ rets = <<>>

\* DistinguishedName.from_der(dn)
DnFromDer ==
  /\ pc = "start"
  /\ pc' = "dn_decoded"
  /\ res' = DistinguishedName_from_der(inp.dn)
  /\ UNCHANGED <<inp, fp, rets>>

\* ObjectID.from_der on the first attribute's content
DnFirstOid ==
  /\ pc = "start"
  /\ inp.sets # <<>>
  /\ pc' = "oid_decoded"
  /\ res' = ObjectID_from_der(CommonName \o TLV(inp.sets[1][1].tag, inp.sets[1][1].value))
  /\ UNCHANGED <<inp, fp, rets>>

NextDn == DnFromDer \/ DnFirstOid

SpecDn == InitDn /\ [][NextDn]_vars

\* an attribute SEQUENCE that holds one ObjectID and one directory string
WellFormedAttr(a) == a.tag \in StringTags /\ a.extra = <<>>

\* the decoded text is the declared content of the string element
TextOf(pair, a) == Utf8Decode(a.value, <<>>).ok /\ pair[2] = Utf8Decode(a.value, <<>>).val

\* C9: DistinguishedName.from_der fails when some attribute SEQUENCE holds
\* anything other than one ObjectID and one directory string, and when it
\* succeeds each attribute string is the declared content of its string
\* element.
DnAttributesExact ==
  pc = "dn_decoded" =>
    /\ (\E i \in 1..Len(inp.sets) : \E j \in 1..Len(inp.sets[i]) :
          ~WellFormedAttr(inp.sets[i][j])) => ~res.ok
    /\ res.ok =>
         \A i \in 1..Len(inp.sets) : \A j \in 1..Len(inp.sets[i]) :
           TextOf(res.val[i][j], inp.sets[i][j])

====
